---- MODULE Spec2Model ----
(***************************************************************************)
(* Model of mirage/grism_tso_simulator.py (class GrismTSO).                *)
(*                                                                         *)
(* The object `self` and the outcome of the last method call are the       *)
(* state.  Every method is one action: the environment calls it with       *)
(* arguments from small sets and the action computes what the whole method *)
(* does, to its return or to the exception that ends it.                   *)
(*                                                                         *)
(* Conventions                                                             *)
(*  - Python semantics are kept: a name that neither the method's          *)
(*    parameters and locals nor the module's imports provide raises        *)
(*    NameError at the line that evaluates it; an `if/elif` without `else` *)
(*    leaves its variables as they were.                                   *)
(*  - The free-text note lines of the file (216, 233-234, 284, 557) are    *)
(*    read as notes, not as statements.                                    *)
(*  - Functions of other modules are modelled by their contract.           *)
(*  - Times are integer ticks of half a second, so that a frame time need  *)
(*    not be a whole number of seconds.  Catalog times are held as the     *)
(*    ticks they denote (value x ticks per Time_units).                    *)
(*  - Flux ratios are integers in units of 1/LcOne; images are one pixel.  *)
(***************************************************************************)
EXTENDS Integers, Sequences, FiniteSets, TLC

VARIABLES self, call, result

vars == <<self, call, result>>

\* ---------------------------------------------------------------- bounds
MaxRows == 2
MaxInts == 2
MaxGroups == 3
MaxResets == 1
MaxFrameIdx == 6

\* The flux ratio 1.0 of line 323, in the model's flux unit (1/2).
LcOne == 2

Wavelengths == {1, 2}
FluxLevels == {1, 2, 3}

\* ---------------------------------------------------------------- helpers
Range(s) == {s[i] : i \in 1..Len(s)}

StrictlyIncreasing(s) == \A i \in 1..(Len(s) - 1) : s[i] < s[i + 1]

RECURSIVE SeqsUpTo(_, _)
SeqsUpTo(S, n) ==
    IF n = 0 THEN {<<>>}
    ELSE LET shorter == SeqsUpTo(S, n - 1)
         IN shorter \cup {Append(s, x) : s \in {t \in shorter : Len(t) = n - 1}, x \in S}

\* One lightcurve row: a flux ratio per wavelength.
LcRows == [Wavelengths -> FluxLevels]

\* Lightcurve tables: up to MaxRows rows (axis 0 is time, axis 1 wavelength).
LightcurveTables == SeqsUpTo(LcRows, MaxRows)

\* ------------------------------------------------- find_transit_frames
\* A test of the first wavelength only (a faulty variant, for comparison).
RowAllOnes_FirstOnly(lc, row) == lc[row][1] = LcOne

\* np.all(lc == 1.0) for row `row` (1-based here, 0-based in the code).
RowAllOnes(lc, row) == \A w \in DOMAIN lc[row] : lc[row][w] = LcOne

\* for row in range(shape[0]): append the 0-based row to one of the lists.
RECURSIVE ftf_loop(_, _, _, _)
ftf_loop(lc, row, transit, no_transit) ==
    IF row > Len(lc) THEN <<transit, no_transit>>
    ELSE IF RowAllOnes(lc, row)
         THEN ftf_loop(lc, row + 1, transit, Append(no_transit, row - 1))
         ELSE ftf_loop(lc, row + 1, Append(transit, row - 1), no_transit)

\* A loop that stops one row early (a faulty variant, for comparison).
find_transit_frames_short(lc) ==
    IF Len(lc) = 0 THEN <<(<<>>), (<<>>)>>
    ELSE ftf_loop(SubSeq(lc, 1, Len(lc) - 1), 1, <<>>, <<>>)

\* return transit, no_transit
find_transit_frames(lc) == ftf_loop(lc, 1, <<>>, <<>>)

\* Line 193: transit_frames, unaltered_frames = self.find_transit_frames(lightcurves)
ClassifyFrames(lc) ==
    LET r == find_transit_frames(lc)
    IN [transit_frames |-> r[1], unaltered_frames |-> r[2]]

\* ---------------------------------------------------------------- results
\* The outcome of a call: how it ended and what it left behind.
NoResult ==
    [status |-> "none", exc |-> "", line |-> 0,
     transit |-> <<>>, no_transit |-> <<>>,
     catalog |-> <<>>, warnings |-> <<>>,
     time |-> <<>>, time_den |-> 0, time_made |-> FALSE,
     trace |-> <<>>, lightcurves_made |-> FALSE,
     buffers |-> <<>>, flushes |-> <<>>, lookups |-> <<>>, stores |-> <<>>,
     allocated |-> 0, saved |-> 0, counter |-> 0, resets |-> 0, recomputes |-> 0]

Raise(r, exc, line) == [r EXCEPT !.status = "raised", !.exc = exc, !.line = line]

Return(r) == [r EXCEPT !.status = "returned"]

\* -------------------------------------------------------------- name scopes
\* The names a method body can resolve: its parameters, the locals it
\* assigns, and the module-level names it uses that the file imports (or that
\* stand for functions of other modules).
TsoCatalogCheckScope ==
    {"catalog", "exp_time", "time_unit_str", "catalog_time_units",
     "catalog_total_time", "u", "print", "ValueError"}

MakeLightcurvesScope ==
    {"catalog", "frame_time", "params", "time_units", "start_time", "end_time",
     "time", "model", "lightcurves", "i", "radius", "new_flux",
     "batman", "np", "u", "enumerate", "len"}

Bound(name, scope) == name \in scope

\* ---------------------------------------------------------------- time
\* Ticks (half seconds) in n seconds, and the whole seconds in t ticks (int()).
Seconds(n) == 2 * n

WholeSeconds(t) == t \div 2

\* Ticks per catalog time unit, astropy's u.Unit(str).to(u.second).
TicksPer(unit) ==
    CASE unit \in {"second", "seconds"} -> Seconds(1)
      [] unit \in {"minute", "minutes"} -> Seconds(60)

\* Lines 604-605: the plural spellings lose their last letter.
PluralUnits == {"seconds", "minutes", "hours", "days"}

DropLastLetter(unit) ==
    CASE unit = "seconds" -> "second"
      [] unit = "minutes" -> "minute"
      [] unit = "hours" -> "hour"
      [] unit = "days" -> "day"
      [] OTHER -> unit

\* A TSO catalog row: the fields the two catalog methods read.  The three
\* times are in ticks (value x TicksPer(Time_units)).
MkCatalog(unit, start, length, conj) ==
    [Time_units |-> unit,
     Start_time |-> start * TicksPer(unit),
     End_time |-> (start + length) * TicksPer(unit),
     Inferior_conjunction |-> conj * TicksPer(unit)]

\* ------------------------------------------------------ tso_catalog_check
\* Lines 596-624.  `catalog` is changed in place (line 606) and comes back in
\* the result's catalog field whether the method returns or raises.
tso_catalog_check(catalog, exp_time) ==
    LET time_unit_str ==
            IF catalog.Time_units \in PluralUnits
            THEN DropLastLetter(catalog.Time_units)
            ELSE catalog.Time_units
        cat1 == [catalog EXCEPT !.Time_units = time_unit_str]
        r1 == [NoResult EXCEPT !.catalog = cat1]
    IN  \* line 608 reads tso_catalog, which the static method does not have
        IF ~Bound("tso_catalog", TsoCatalogCheckScope)
        THEN Raise(r1, "NameError", 608)
        ELSE
        LET catalog_total_time == cat1.End_time - cat1.Start_time
            extend == exp_time > catalog_total_time
            r2 == IF extend
                  THEN [r1 EXCEPT !.warnings = <<"lightcurve shorter than exposure">>]
                  ELSE r1
        IN  IF extend /\ ~Bound("total_exposure_time", TsoCatalogCheckScope)
            THEN Raise(r2, "NameError", 616)
            ELSE
            LET cat2 == IF extend
                        THEN [cat1 EXCEPT !.End_time = cat1.Start_time + exp_time]
                        ELSE cat1
                r3 == [r2 EXCEPT !.catalog = cat2]
            IN  IF \/ cat2.Inferior_conjunction < cat2.Start_time
                   \/ cat2.Inferior_conjunction > cat2.End_time
                THEN Raise(r3, "ValueError", 622)
                ELSE Return(r3)

\* -------------------------------------------------------- make_lightcurves
\* The numpy builds the file can meet: np.float (line 403) goes away in
\* 1.24, and np.linspace stops taking a float sample count in 1.18.
NumpyBuilds == {"numpy<1.18", "numpy<1.24", "numpy>=1.24"}

\* np.linspace(start, stop, num): num samples from start to stop inclusive,
\* as numerators over the common denominator LinspaceDen(num).
LinspaceDen(num) == IF num > 1 THEN num - 1 ELSE 1

linspace(start, stop, num) ==
    [i \in 1..(IF num > 0 THEN num ELSE 0) |->
        start * LinspaceDen(num) + (i - 1) * (stop - start)]

\* Lines 375-429.  frame_time is in ticks.
make_lightcurves(catalog, frame_time, build) ==
    LET r0 == [NoResult EXCEPT !.catalog = catalog]
    IN  IF build = "numpy>=1.24" THEN Raise(r0, "AttributeError", 403)
        ELSE IF build = "numpy<1.24" THEN Raise(r0, "TypeError", 419)
        ELSE
        LET start_time == catalog.Start_time
            end_time == catalog.End_time
            num == WholeSeconds(frame_time)
            time == linspace(start_time, end_time, num)
            r1 == [r0 EXCEPT !.time = time, !.time_den = LinspaceDen(num),
                             !.time_made = TRUE]
        IN  \* line 424 reads transmissions, line 425 transmission
            IF ~Bound("transmissions", MakeLightcurvesScope)
            THEN Raise(r1, "NameError", 424)
            ELSE IF ~Bound("transmission", MakeLightcurvesScope)
            THEN Raise(r1, "NameError", 425)
            ELSE Return([r1 EXCEPT !.lightcurves_made = TRUE])

\* ---------------------------------------------------------------- object
\* The object after the assignments of __init__ (lines 79-101).  The *_set
\* fields say which later attributes exist; a read of one that does not
\* raises AttributeError.  No line of the class assigns self.paramfile:
\* whether it exists is left to the methods __init__ calls at lines 111 and
\* 114, which the file does not have, and to the caller.
NewObject ==
    [orders |-> <<"+1", "+2">>,
     paramfile_set |-> FALSE,
     instrument |-> "",
     exposure_set |-> FALSE, dims_set |-> FALSE,
     numints |-> 0, numgroups |-> 0, numframes |-> 0, numskips |-> 0, numresets |-> 0,
     frames_per_group |-> 0, frames_per_int |-> 0, total_frames |-> 0,
     seed_dimensions |-> <<0, 0>>, frametime |-> 0,
     splits_set |-> FALSE,
     split_seed |-> FALSE, grp_segment_indexes |-> <<>>, int_segment_indexes |-> <<>>,
     total_seed_segments |-> 0,
     file_segments_set |-> FALSE, file_segment_indexes |-> <<>>]

\* ------------------------------------------------------ exposure timing
\* mirage.utils.utils.get_frame_count_info (called at line 146): frames per
\* group, frames per integration, and all frames of the exposure with the
\* resets between integrations.
get_frame_count_info(numints, numgroups, numframes, numskips, numresets) ==
    LET frames_per_group == numframes + numskips
        frames_per_int == numgroups * frames_per_group
    IN [frames_per_group |-> frames_per_group,
        frames_per_int |-> frames_per_int,
        total_frames |-> frames_per_int * numints + numresets * (numints - 1)]

\* ---------------------------------------------------------- file splitting
\* The data-volume budget of the segmentation planner, in pixels.
PixelLimit == 4

\* np.arange(0, stop, step) followed by np.append(.., stop).
RECURSIVE arange_then(_, _, _)
arange_then(from, stop, step) ==
    IF from >= stop THEN <<stop>>
    ELSE <<from>> \o arange_then(from + step, stop, step)

\* mirage.utils.utils.find_file_splits (called at lines 296 and 308): greedy
\* boundaries so that one segment stays within PixelLimit; split inside an
\* integration when one integration alone is over the limit.
\* Returns <<split, group boundaries, integration boundaries>>.
find_file_splits(xdim, ydim, groups, integrations) ==
    LET pix_per_group == xdim * ydim
        pix_per_int == pix_per_group * groups
        observation == pix_per_int * integrations
    IN  IF pix_per_int > PixelLimit
        THEN <<TRUE, arange_then(0, groups, PixelLimit \div pix_per_group),
               [i \in 1..(integrations + 1) |-> i - 1]>>
        ELSE IF observation > PixelLimit
        THEN <<TRUE, <<0, groups>>,
               arange_then(0, integrations, PixelLimit \div pix_per_int)>>
        ELSE <<FALSE, <<0, groups>>, <<0, integrations>>>>

FileSplittingScope ==
    {"self", "frames_per_group", "find_file_splits", "np", "len"}

\* Lines 291-313.  Returns <<object, result>>: the attributes assigned
\* before an exception stay on the object.
file_splitting(obj) ==
    IF ~obj.exposure_set THEN <<obj, Raise(NoResult, "AttributeError", 295)>>
    ELSE IF obj.numgroups = 0 THEN <<obj, Raise(NoResult, "ZeroDivisionError", 295)>>
    ELSE IF ~obj.dims_set THEN <<obj, Raise(NoResult, "AttributeError", 296)>>
    ELSE
    LET fs == find_file_splits(obj.seed_dimensions[2], obj.seed_dimensions[1],
                               obj.frames_per_int, obj.numints)
        obj1 == [obj EXCEPT !.splits_set = TRUE, !.split_seed = fs[1],
                            !.grp_segment_indexes = fs[2],
                            !.int_segment_indexes = fs[3]]
    IN  \* line 301 reads group_segment_indexes and integration_segment_indexes
        IF ~Bound("group_segment_indexes", FileSplittingScope)
        THEN <<obj1, Raise(NoResult, "NameError", 301)>>
        ELSE
        LET obj2 == [obj1 EXCEPT !.total_seed_segments =
                        (Len(fs[2]) - 1) * (Len(fs[3]) - 1)]
        IN  \* line 307 reads split_seed
            IF ~Bound("split_seed", FileSplittingScope)
            THEN <<obj2, Raise(NoResult, "NameError", 307)>>
            ELSE
            LET fs_g == find_file_splits(obj.seed_dimensions[2], obj.seed_dimensions[1],
                                         obj.numgroups, obj.numints)
            IN <<[obj2 EXCEPT !.file_segments_set = TRUE,
                              !.file_segment_indexes =
                                  IF fs[1] THEN fs_g[3] ELSE <<0, obj.numints>>],
                 Return(NoResult)>>

\* ------------------------------------------------------------- frame loop
\* The one-pixel images.  A dispersed TSO image is the sum over wavelengths
\* of the flux ratio applied to a unit spectrum; the baseline has ratio 1.0
\* everywhere.
RECURSIVE SumOver(_, _)
SumOver(f, S) ==
    IF S = {} THEN 0
    ELSE LET x == CHOOSE y \in S : TRUE IN f[x] + SumOver(f, S \ {x})

\* Grism_seed ...disperse_all_from_cache(lc_interp): the new .final
DisperseAllFromCache(row) == SumOver(row, DOMAIN row)

BaselineFinal == SumOver([w \in Wavelengths |-> LcOne], Wavelengths)

BackgroundFinal == LcOne

InList(x, list) == \E i \in 1..Len(list) : list[i] = x

\* Lines 218-219 (491-492): idx[:-1] - idx[1:]
per_segment(idx) == [i \in 1..(Len(idx) - 1) |-> idx[i] - idx[i + 1]]

\* The loop's variables that outlive one segment, and what the loop has
\* done so far: buffers allocated by np.zeros, advances of the counter for
\* resets, calls of the cached disperser, and segments written to a file
\* (where a segment would be written, lines 284 and 557, the file has a note
\* and no statement, so `saved` stays as it starts).
LoopStart ==
    [status |-> "running", exc |-> "", line |-> 0,
     total_frame_counter |-> 0, previous_segment |-> 1, segment_part_number |-> 0,
     fos_bound |-> FALSE, frame_only_signal |-> 0, final |-> BaselineFinal,
     recomputes |-> 0, resets |-> 0, allocated |-> 0, saved |-> 0,
     i |-> 0, j |-> 0, seed |-> <<>>, previous_frame |-> 0,
     buffers |-> <<>>, flushes |-> <<>>, lookups |-> <<>>, stores |-> <<>>]

LoopRaise(st, exc, line) == [st EXCEPT !.status = "raised", !.exc = exc, !.line = line]

\* Lines 245-263 (518-536): one frame.  `where` gives the line numbers of
\* the copy that runs and whether its names are bound: create_seed has
\* background_dispersed, no_transit_signal, lightcurves, times and
\* grism_seed_object as locals, seed_builder has none of them.
FrameStep(st, integ, frame, ctx) ==
    LET c == st.total_frame_counter
        \* the frame's place in the exposure, for the logs
        at == [integration |-> ctx.int_segment_indexes[st.i] + integ,
               frame |-> ctx.grp_segment_indexes[st.j] + frame]
        look(cls) == Append(st.lookups,
                            [integration |-> at.integration, frame |-> at.frame,
                             row |-> c, class |-> cls])
        st1 ==
            IF InList(c, ctx.unaltered)
            THEN IF ~ctx.names THEN LoopRaise(st, "NameError", ctx.line_unaltered)
                 ELSE [st EXCEPT !.lookups = look("UNALTERED"),
                                 !.fos_bound = TRUE,
                                 !.frame_only_signal =
                                     (BackgroundFinal + ctx.no_transit_signal) * ctx.frametime]
            ELSE IF InList(c, ctx.transit)
            THEN IF ~ctx.names THEN LoopRaise(st, "NameError", ctx.line_transit)
                 ELSE IF c + 1 > Len(ctx.lightcurves)
                 THEN LoopRaise(st, "IndexError", ctx.line_transit)
                 \* interp1d(times, lightcurve): x and y must be equally long
                 ELSE IF Len(ctx.times) # Cardinality(DOMAIN ctx.lightcurves[c + 1])
                 THEN LoopRaise(st, "ValueError", ctx.line_transit + 1)
                 \* line 256 (529): the cached disperser, which may fail
                 ELSE IF ctx.disperser = "disperse_all_from_cache fails"
                 THEN LoopRaise([st EXCEPT !.lookups = look("MODULATED")],
                                "DisperserError", ctx.line_transit + 3)
                 ELSE LET final == DisperseAllFromCache(ctx.lightcurves[c + 1])
                      IN [st EXCEPT !.lookups = look("MODULATED"),
                                    !.fos_bound = TRUE,
                                    !.final = final,
                                    !.recomputes = @ + 1,
                                    !.frame_only_signal =
                                        (BackgroundFinal + final) * ctx.frametime]
            ELSE [st EXCEPT !.lookups = look("NONE")]
    IN  IF st1.status = "raised" THEN st1
        \* line 262 reads frame_only_signal, assigned or not
        ELSE IF ~st1.fos_bound THEN LoopRaise(st1, "UnboundLocalError", ctx.line_store)
        ELSE LET v == st1.previous_frame + st1.frame_only_signal
             IN [st1 EXCEPT !.seed[integ + 1][frame + 1] = v,
                            !.previous_frame = v,
                            !.stores = Append(@, [integration |-> at.integration,
                                                  frame |-> at.frame,
                                                  previous |-> st1.previous_frame,
                                                  signal |-> st1.frame_only_signal,
                                                  value |-> v])]

\* for frame in np.arange(grp_dim)
RECURSIVE FrameLoop(_, _, _, _, _)
FrameLoop(st, integ, frame, grp_dim, ctx) ==
    IF st.status = "raised" \/ frame >= grp_dim THEN st
    ELSE FrameLoop(FrameStep(st, integ, frame, ctx), integ, frame + 1, grp_dim, ctx)

\* for integ in np.arange(int_dim): previous_frame = zeros; frames; resets
RECURSIVE IntegLoop(_, _, _, _, _)
IntegLoop(st, integ, int_dim, grp_dim, ctx) ==
    IF st.status = "raised" \/ integ >= int_dim THEN st
    ELSE LET st1 == FrameLoop([st EXCEPT !.previous_frame = 0], integ, 0, grp_dim, ctx)
         IN IF st1.status = "raised" THEN st1
            ELSE IntegLoop([st1 EXCEPT !.total_frame_counter = @ + ctx.numresets,
                                       !.resets = @ + ctx.numresets],
                           integ + 1, int_dim, grp_dim, ctx)

\* np.where(int_end <= file_segment_indexes)[0][0], 0-based; -1 when empty.
RECURSIVE FirstAtLeast(_, _, _)
FirstAtLeast(int_end, idx, k) ==
    IF k > Len(idx) THEN 0 - 1
    ELSE IF int_end <= idx[k] THEN k - 1
    ELSE FirstAtLeast(int_end, idx, k + 1)

\* Lines 229-283 (502-556): one segment part, from np.zeros to the file name.
SegmentPart(st, i, j, ctx) ==
    LET int_dim == per_segment(ctx.int_segment_indexes)[i]
        grp_dim == per_segment(ctx.grp_segment_indexes)[j]
        int_end == ctx.int_segment_indexes[i + 1]
    IN  IF int_dim < 0 \/ grp_dim < 0
        THEN LoopRaise(st, "ValueError", ctx.line_zeros)
        ELSE
        LET zeros == [a \in 1..int_dim |-> [b \in 1..grp_dim |-> 0]]
            st1 == IntegLoop([st EXCEPT !.seed = zeros, !.i = i, !.j = j,
                                        !.allocated = @ + 1],
                             0, int_dim, grp_dim, ctx)
        IN  IF st1.status = "raised" THEN st1
            ELSE IF ~ctx.file_segments_set
            THEN LoopRaise(st1, "AttributeError", ctx.line_where)
            ELSE
            LET segment_number == FirstAtLeast(int_end, ctx.file_segment_indexes, 1)
            IN  IF segment_number < 0 THEN LoopRaise(st1, "IndexError", ctx.line_where)
                ELSE
                LET part == IF segment_number = st1.previous_segment
                            THEN st1.segment_part_number + 1 ELSE 1
                    st2 == [st1 EXCEPT !.segment_part_number = part,
                                       !.previous_segment = segment_number,
                                       !.buffers = Append(@, st1.seed),
                                       !.flushes = Append(@, [segment |-> segment_number,
                                                              part |-> part,
                                                              i |-> i, j |-> j])]
                IN  \* line 554 of seed_builder reads segment_file_base
                    IF ~ctx.names THEN LoopRaise(st2, "NameError", ctx.line_where + 8)
                    ELSE st2

\* for j, grp_dim in enumerate(groups_per_segment)
RECURSIVE GroupSegments(_, _, _, _)
GroupSegments(st, i, j, ctx) ==
    IF st.status = "raised" \/ j > Len(ctx.grp_segment_indexes) - 1 THEN st
    ELSE GroupSegments(SegmentPart(st, i, j, ctx), i, j + 1, ctx)

\* for i, int_dim in enumerate(ints_per_segment)
RECURSIVE IntSegments(_, _, _)
IntSegments(st, i, ctx) ==
    IF st.status = "raised" \/ i > Len(ctx.int_segment_indexes) - 1 THEN st
    ELSE IntSegments(GroupSegments(st, i, 1, ctx), i + 1, ctx)

\* What the loop reads: the object's attributes, the two frame lists and
\* the locals of the method that runs it.
LoopContext(obj, unaltered, transit, names, lightcurves, times, disperser, lines) ==
    [int_segment_indexes |-> obj.int_segment_indexes,
     grp_segment_indexes |-> obj.grp_segment_indexes,
     file_segment_indexes |-> obj.file_segment_indexes,
     file_segments_set |-> obj.file_segments_set,
     numresets |-> obj.numresets, frametime |-> obj.frametime,
     unaltered |-> unaltered, transit |-> transit,
     names |-> names, lightcurves |-> lightcurves, times |-> times,
     no_transit_signal |-> BaselineFinal, disperser |-> disperser,
     line_zeros |-> lines[1], line_unaltered |-> lines[2],
     line_transit |-> lines[3], line_store |-> lines[4], line_where |-> lines[5]]

\* The frame loop, lines 218-284 of create_seed and 491-557 of seed_builder.
SeedLoop(ctx) == IntSegments(LoopStart, 1, ctx)

LoopResult(st) ==
    [NoResult EXCEPT !.status = IF st.status = "raised" THEN "raised" ELSE "returned",
                     !.exc = st.exc, !.line = st.line,
                     !.buffers = st.buffers, !.flushes = st.flushes,
                     !.lookups = st.lookups, !.stores = st.stores,
                     !.allocated = st.allocated, !.saved = st.saved,
                     !.counter = st.total_frame_counter, !.resets = st.resets,
                     !.recomputes = st.recomputes]

SeedBuilderLines == <<504, 520, 526, 535, 546>>
CreateSeedLines == <<231, 247, 253, 262, 273>>

\* Lines 477-557.
seed_builder(obj, not_in_transit, in_transit) ==
    IF ~obj.splits_set THEN Raise(NoResult, "AttributeError", 491)
    ELSE LoopResult(SeedLoop(LoopContext(obj, not_in_transit, in_transit,
                                         FALSE, <<>>, <<>>, "ok", SeedBuilderLines)))

\* ------------------------------------------------------------- create_seed
GetParamInfoScope ==
    {"self", "parameters", "cats", "filter_name", "pupil_name",
     "read_yaml", "CATALOG_YAML_ENTRIES", "ValueError"}

\* Lines 329-371.  Returns <<object, result>>.
get_param_info(obj, params) ==
    LET obj1 == [obj EXCEPT !.instrument = params.instrument]
    IN  \* line 339 reads self.paramfile
        IF ~obj.paramfile_set THEN <<obj, Raise(NoResult, "AttributeError", 339)>>
        ELSE IF params.instrument \notin {"niriss", "nircam"}
        THEN <<obj1, Raise(NoResult, "ValueError", 353)>>
        ELSE IF params.instrument = "niriss"
        THEN <<obj1, Return(NoResult)>>
        \* line 368 reads slf
        ELSE IF ~Bound("slf", GetParamInfoScope)
        THEN <<obj1, Raise(NoResult, "NameError", 368)>>
        ELSE <<obj1, Return(NoResult)>>

\* batman's model.light_curve at one sample: 1.0 away from the inferior
\* conjunction, below 1.0 within a second of it.
TransitRow(t_num, den, t0) ==
    LET d == IF t_num >= t0 * den THEN t_num - t0 * den ELSE t0 * den - t_num
    IN [w \in Wavelengths |-> IF d <= Seconds(1) * den THEN LcOne - 1 ELSE LcOne]

LightcurvesOf(ml, catalog) ==
    [i \in 1..Len(ml.time) |->
        TransitRow(ml.time[i], ml.time_den, catalog.Inferior_conjunction)]

\* The two calls in the opposite order (a faulty variant, for comparison).
LightcurvesThenCheck(catalog, exp_time, frametime, build) ==
    LET ml == make_lightcurves(catalog, frametime, build)
    IN  IF ml.status = "raised"
        THEN [ml EXCEPT !.trace = <<"make_lightcurves">>]
        ELSE LET chk == tso_catalog_check(catalog, exp_time)
             IN [chk EXCEPT !.trace = <<"make_lightcurves", "tso_catalog_check">>,
                            !.time = ml.time, !.time_den = ml.time_den,
                            !.time_made = ml.time_made,
                            !.lightcurves_made = ml.lightcurves_made]

\* Lines 186-189: tso_catalog_check, then make_lightcurves on its catalog.
CheckThenLightcurves(catalog, exp_time, frametime, build) ==
    LET chk == tso_catalog_check(catalog, exp_time)
    IN  IF chk.status = "raised"
        THEN [chk EXCEPT !.trace = <<"tso_catalog_check">>]
        ELSE LET ml == make_lightcurves(chk.catalog, frametime, build)
             IN [ml EXCEPT !.trace = <<"tso_catalog_check", "make_lightcurves">>,
                           !.warnings = chk.warnings]

\* The calls of lines 134-161 in order, once get_param_info has returned,
\* and those of lines 165-182.
TraceToDisperser ==
    <<"get_param_info", "get_frame_count_info", "split_param_file",
      "make_seed", "run_disperser">>

TraceBeforeCheck ==
    TraceToDisperser \o <<"make_seed", "calculate_exposure_time">>

\* What the disperser of another package does when it is called: the seed
\* is dispersed, or the call of run_disperser fails (line 472 calls
\* dispere_all on its order objects), or a later call of
\* disperse_all_from_cache fails.
DisperserOutcomes == {"ok", "run_disperser fails", "disperse_all_from_cache fails"}

\* A variant that goes on after a failed call (faulty, for comparison).
run_disperser_goes_on(outcome) == Return(NoResult)

\* Lines 438-475: nothing in the method catches what Grism_seed raises.
run_disperser(outcome) ==
    IF outcome = "run_disperser fails"
    THEN Raise(NoResult, "DisperserError", 472)
    ELSE Return(NoResult)

\* Lines 141-150: the exposure's attributes on the object.
WithExposure(obj, in, fc) ==
    [obj EXCEPT !.exposure_set = TRUE,
                !.numints = in.params.nint,
                !.numgroups = in.params.ngroup,
                !.numframes = in.params.nframe,
                !.numskips = in.params.nskip,
                !.numresets = in.params.resets_bet_ints,
                !.frames_per_group = fc.frames_per_group,
                !.frames_per_int = fc.frames_per_int,
                !.total_frames = fc.total_frames]

\* Line 170 and, in calculate_exposure_time (line 182), line 126.
WithDimensions(obj, in) ==
    [obj EXCEPT !.dims_set = TRUE,
                !.seed_dimensions = in.nominal_dims,
                !.frametime = in.frametime]

\* Lines 218-284: the frame loop's outcome put on the run's result.
WithLoop(r, lp) ==
    [r EXCEPT !.status = lp.status, !.exc = lp.exc, !.line = lp.line,
              !.buffers = lp.buffers, !.flushes = lp.flushes, !.lookups = lp.lookups,
              !.stores = lp.stores, !.allocated = lp.allocated, !.saved = lp.saved,
              !.counter = lp.counter, !.resets = lp.resets, !.recomputes = lp.recomputes]

\* Lines 200-284, given file_splitting's <<object, result>>.
CreateSeedLoop(fs, r, frames, lightcurves, disperser) ==
    IF fs[2].status = "raised"
    THEN <<fs[1], Raise(r, fs[2].exc, fs[2].line)>>
    ELSE <<fs[1],
           WithLoop(r, LoopResult(SeedLoop(LoopContext(
                        fs[1], frames.unaltered_frames, frames.transit_frames,
                        TRUE, lightcurves, r.time, disperser, CreateSeedLines))))>>

\* Lines 193-284, given the lightcurve table.
CreateSeedFrames(obj, r, frames, lightcurves, disperser) ==
    \* line 196: the baseline run of the disperser
    IF run_disperser(disperser).status = "raised"
    THEN <<obj, Raise([r EXCEPT !.transit = frames.transit_frames,
                                !.no_transit = frames.unaltered_frames,
                                !.trace = @ \o <<"find_transit_frames", "run_disperser">>],
                      "DisperserError", 472)>>
    ELSE
    CreateSeedLoop(file_splitting(obj),
                   [r EXCEPT !.transit = frames.transit_frames,
                             !.no_transit = frames.unaltered_frames,
                             !.trace = @ \o <<"find_transit_frames",
                                              "run_disperser", "file_splitting">>],
                   frames, lightcurves, disperser)

CreateSeedClassify(obj, r, lightcurves, disperser) ==
    CreateSeedFrames(obj, r, ClassifyFrames(lightcurves), lightcurves, disperser)

\* Lines 186-284, given the outcome of the check and the lightcurves.
CreateSeedAfterCheck(obj, r, disperser) ==
    IF r.status = "raised" THEN <<obj, r>>
    ELSE CreateSeedClassify(obj, r, LightcurvesOf(r, r.catalog), disperser)

\* Lines 165-284, on the object with the seed's dimensions and frame time.
CreateSeedDimensions(obj, in) ==
    CreateSeedAfterCheck(
        obj,
        [CheckThenLightcurves(in.catalog, obj.frametime * obj.total_frames,
                              obj.frametime, in.build)
            EXCEPT !.trace = TraceBeforeCheck \o @],
        in.disperser)

\* Lines 153-284, on the object with the exposure's attributes: the
\* background run of the disperser (line 161) comes first.
CreateSeedExposure(obj, in) ==
    LET d == run_disperser(in.disperser)
    IN  IF d.status = "raised"
        THEN <<obj, [d EXCEPT !.trace = TraceToDisperser]>>
        ELSE CreateSeedDimensions(WithDimensions(obj, in), in)

CreateSeedParams(g, in) ==
    IF g[2].status = "raised"
    THEN <<g[1], [g[2] EXCEPT !.trace = <<"get_param_info">>]>>
    ELSE CreateSeedExposure(
            WithExposure(g[1], in,
                         get_frame_count_info(in.params.nint, in.params.ngroup,
                                              in.params.nframe, in.params.nskip,
                                              in.params.resets_bet_ints)),
            in)

\* Lines 130-284.  Returns <<object, result>>.
create_seed(obj, in) == CreateSeedParams(get_param_info(obj, in.params), in)

\* ---------------------------------------------------------------- state
NoCall == [op |-> "none"]


\* ------------------------------------------------- classifier, called alone
InitClassify ==
    /\ self = NewObject
    /\ call \in {[op |-> "find_transit_frames", lightcurves |-> lc] :
                    lc \in LightcurveTables}
    /\ result = NoResult

FindTransitFrames ==
    /\ call.op = "find_transit_frames"
    /\ result.status = "none"
    /\ LET r == find_transit_frames(call.lightcurves)
       IN result' = Return([NoResult EXCEPT !.transit = r[1], !.no_transit = r[2]])
    /\ UNCHANGED <<self, call>>

SpecClassify == InitClassify /\ [][FindTransitFrames]_vars

\* --------------------------------------------- catalog methods, called alone
CatalogUnits == {"second", "seconds", "minute", "minutes"}
CatalogStarts == {0, 10}
CatalogLengths == {50, 100}
CatalogConjunctions == {5, 40, 110, 200}
ExposureTimes == {Seconds(40), Seconds(80), Seconds(120)}
FrameTimes == {1, 3, 4, 5}

Catalogs ==
    {MkCatalog(un, s, l, c) : un \in CatalogUnits, s \in CatalogStarts,
                              l \in CatalogLengths, c \in CatalogConjunctions}

InitCatalog ==
    /\ self = NewObject
    /\ call \in
          {[op |-> "tso_catalog_check", catalog |-> c, exp_time |-> e] :
              c \in Catalogs, e \in ExposureTimes}
          \cup
          {[op |-> "make_lightcurves", catalog |-> c, frame_time |-> f, build |-> b] :
              c \in {k \in Catalogs : k.Time_units \notin PluralUnits},
              f \in FrameTimes, b \in NumpyBuilds}
    /\ result = NoResult

TsoCatalogCheck ==
    /\ call.op = "tso_catalog_check"
    /\ result.status = "none"
    /\ result' = tso_catalog_check(call.catalog, call.exp_time)
    /\ UNCHANGED <<self, call>>

MakeLightcurves ==
    /\ call.op = "make_lightcurves"
    /\ result.status = "none"
    /\ result' = make_lightcurves(call.catalog, call.frame_time, call.build)
    /\ UNCHANGED <<self, call>>

NextCatalog == TsoCatalogCheck \/ MakeLightcurves

SpecCatalog == InitCatalog /\ [][NextCatalog]_vars

\* ------------------------------------------------- one object, one exposure
Instruments == {"niriss", "nircam", "miri"}
NFrameChoices == {1, 2}
SeedFrameTimes == {1, 3}

ParamFiles ==
    [instrument : Instruments, nint : 1..MaxInts, ngroup : 1..MaxGroups,
     nframe : NFrameChoices, nskip : {0}, resets_bet_ints : 0..MaxResets]

SeedCatalogs ==
    {MkCatalog("seconds", 0, l, c) : l \in {2, 100}, c \in {1, 200}}

\* Lightcurve tables in the shape of a transit: 1.0, a dip, 1.0 again.
OnesRow == [w \in Wavelengths |-> LcOne]
DipRow == [w \in Wavelengths |-> LcOne - 1]

TransitTables ==
    {[i \in 1..n |-> IF a < i /\ i <= b THEN DipRow ELSE OnesRow] :
        n \in 0..MaxFrameIdx, a \in 0..MaxFrameIdx, b \in 0..MaxFrameIdx}

Init ==
    /\ self \in {[NewObject EXCEPT !.paramfile_set = b] : b \in BOOLEAN}
    /\ call \in {[op |-> "create_seed", params |-> p, frametime |-> f,
                  nominal_dims |-> <<1, 1>>, catalog |-> c, build |-> b,
                  disperser |-> d] :
                    p \in ParamFiles, f \in SeedFrameTimes,
                    c \in SeedCatalogs, b \in NumpyBuilds, d \in DisperserOutcomes}
    /\ result = NoResult

CreateSeed ==
    /\ call.op = "create_seed"
    /\ result.status = "none"
    /\ LET r == create_seed(self, call)
       IN self' = r[1] /\ result' = r[2]
    /\ UNCHANGED call

\* The caller goes through the methods in the order create_seed,
\* file_splitting, seed_builder, each once, whatever the one before raised.
FileSplitting ==
    /\ call.op = "create_seed"
    /\ result.status # "none"
    /\ LET r == file_splitting(self)
       IN self' = r[1] /\ result' = r[2]
    /\ call' = [op |-> "file_splitting"]

SeedBuilder ==
    /\ call.op = "file_splitting"
    /\ \E lc \in TransitTables :
         LET frames == ClassifyFrames(lc)
         IN /\ call' = [op |-> "seed_builder", lightcurves |-> lc,
                        not_in_transit |-> frames.unaltered_frames,
                        in_transit |-> frames.transit_frames]
            /\ result' = seed_builder(self, frames.unaltered_frames, frames.transit_frames)
    /\ UNCHANGED self

Next == CreateSeed \/ FileSplitting \/ SeedBuilder

Spec == Init /\ [][Next]_vars

\* ---------------------------------------------------------------- claims
\* The integrations and frames of the exposure on the object.
ExposureFrames ==
    {<<k, f>> : k \in 0..(self.numints - 1), f \in 0..(self.frames_per_int - 1)}

\* A frame loop has run on an object that file_splitting gave its grids.
LoopRan == call.op = "seed_builder" /\ self.splits_set

StoresOf(k, f) ==
    {e \in Range(result.stores) : e.integration = k /\ e.frame = f}

LookupsOf(k, f) ==
    {e \in Range(result.lookups) : e.integration = k /\ e.frame = f}

\* C1: after the frame loop every frame of every integration has a stored
\* cumulative value; it is the frame's own signal for the first frame of an
\* integration and the previous frame's stored value plus the frame's signal
\* for the others.
C1_CumulativePerIntegration ==
    LoopRan =>
        \A p \in ExposureFrames :
            /\ Cardinality(StoresOf(p[1], p[2])) = 1
            /\ \A e \in StoresOf(p[1], p[2]) :
                 /\ e.value = e.previous + e.signal
                 /\ p[2] = 0 => e.previous = 0
                 /\ p[2] > 0 => \E q \in StoresOf(p[1], p[2] - 1) : e.previous = q.value

\* C2: frame f of integration k is looked up (and its lightcurve row read)
\* at row k * frames_per_int + f, whatever the number of reset frames.
C2_ResetFramesSkipRows ==
    LoopRan =>
        \A p \in ExposureFrames :
            \E e \in LookupsOf(p[1], p[2]) : e.row = p[1] * self.frames_per_int + p[2]

\* C3: find_transit_frames returns a partition of the row indices 0..N-1 into
\* two lists, each in increasing order.
C3_Partition ==
    (call.op = "find_transit_frames" /\ result.status = "returned") =>
        LET N == Len(call.lightcurves)
        IN /\ \A i \in 0..(N - 1) :
                (i \in Range(result.transit)) # (i \in Range(result.no_transit))
           /\ Range(result.transit) \cup Range(result.no_transit) \subseteq 0..(N - 1)
           /\ StrictlyIncreasing(result.transit)
           /\ StrictlyIncreasing(result.no_transit)

C3_Witness ==
    /\ call.op = "find_transit_frames" /\ result.status = "returned"
    /\ Len(result.transit) >= 1 /\ Len(result.no_transit) >= 1

\* C4: a row is in the no_transit list exactly when it is 1.0 at every
\* wavelength and in the transit list exactly when some wavelength differs,
\* and create_seed's unaltered_frames / transit_frames are these two lists.
C4_ExactEquality ==
    (call.op = "find_transit_frames" /\ result.status = "returned") =>
        LET lc == call.lightcurves
            bound == ClassifyFrames(lc)
        IN \A row \in 1..Len(lc) :
              LET ones == \A w \in Wavelengths : lc[row][w] = LcOne
              IN /\ (row - 1 \in Range(result.no_transit)) <=> ones
                 /\ (row - 1 \in Range(result.transit)) <=> ~ones
                 /\ (row - 1 \in Range(bound.unaltered_frames)) <=> ones
                 /\ (row - 1 \in Range(bound.transit_frames)) <=> ~ones

\* A row that is 1.0 at its first wavelength and one flux step off at
\* another has been classified as in transit.
C4_Witness ==
    /\ call.op = "find_transit_frames" /\ result.status = "returned"
    /\ \E row \in 1..Len(call.lightcurves) :
          /\ call.lightcurves[row][1] = LcOne
          /\ \E w \in Wavelengths : call.lightcurves[row][w] = LcOne - 1
          /\ row - 1 \in Range(result.transit)

\* C5: a frame loop given lists that leave frame index 0 in neither class is
\* halted by an error raised where the frame is classified, with no value
\* stored for that frame and no earlier frame's signal used for it.
C5_UnclassifiedIsFatal ==
    (LoopRan /\ ~InList(0, call.not_in_transit) /\ ~InList(0, call.in_transit)) =>
        /\ result.status = "raised"
        /\ result.line >= SeedBuilderLines[2] /\ result.line <= SeedBuilderLines[4]
        /\ \A e \in Range(result.lookups) : e.class = "NONE" =>
              StoresOf(e.integration, e.frame) = {}

\* The window as it stands after any extension.
WindowEnd(catalog, exp_time) ==
    IF exp_time > catalog.End_time - catalog.Start_time
    THEN catalog.Start_time + exp_time
    ELSE catalog.End_time

ConjunctionOutside(catalog, exp_time) ==
    \/ catalog.Inferior_conjunction < catalog.Start_time
    \/ catalog.Inferior_conjunction > WindowEnd(catalog, exp_time)

CheckEnded == call.op = "tso_catalog_check" /\ result.status # "none"

\* C6: with a window shorter than the exposure, tso_catalog_check fails at
\* most for the inferior conjunction; it records a warning, keeps Start_time
\* and makes the window at least as long as the exposure.
C6_WindowExtended ==
    (CheckEnded /\ call.exp_time > call.catalog.End_time - call.catalog.Start_time) =>
        /\ result.status = "raised" =>
              (result.exc = "ValueError" /\ ConjunctionOutside(call.catalog, call.exp_time))
        /\ Len(result.warnings) > 0
        /\ result.catalog.Start_time = call.catalog.Start_time
        /\ result.catalog.End_time - result.catalog.Start_time >= call.exp_time

\* C7: tso_catalog_check raises exactly when the inferior conjunction is
\* outside the window as extended, and never moves the conjunction or the
\* start time.
C7_ConjunctionFatal ==
    CheckEnded =>
        /\ (result.status = "raised") <=> ConjunctionOutside(call.catalog, call.exp_time)
        /\ result.catalog.Inferior_conjunction = call.catalog.Inferior_conjunction
        /\ result.catalog.Start_time = call.catalog.Start_time

\* A create_seed run whose catalog has the inferior conjunction outside the
\* window (as extended to the exposure), once it has ended.
ConjunctionRun ==
    /\ call.op = "create_seed" /\ result.status # "none"
    /\ ConjunctionOutside(call.catalog,
                          call.frametime *
                          get_frame_count_info(call.params.nint, call.params.ngroup,
                                               call.params.nframe, call.params.nskip,
                                               call.params.resets_bet_ints).total_frames)

C9_TimeAxis ==
    (call.op = "make_lightcurves" /\ result.status # "none") =>
        /\ result.status = "returned"
        /\ StrictlyIncreasing(result.time)
        /\ \A i \in 1..(Len(result.time) - 1) :
              result.time[i + 1] - result.time[i] = call.frame_time * result.time_den
        /\ Len(result.time) * call.frame_time =
              call.catalog.End_time - call.catalog.Start_time

\* C10: file_splitting leaves three boundary sequences on the object, each
\* strictly increasing, the integration grids ending at the number of
\* integrations and the group grid at the frames of one integration.
C10_Boundaries ==
    (call.op = "file_splitting" /\ self.exposure_set /\ self.dims_set) =>
        /\ self.splits_set /\ self.file_segments_set
        /\ StrictlyIncreasing(self.int_segment_indexes)
        /\ StrictlyIncreasing(self.grp_segment_indexes)
        /\ StrictlyIncreasing(self.file_segment_indexes)
        /\ self.int_segment_indexes[Len(self.int_segment_indexes)] = self.numints
        /\ self.file_segment_indexes[Len(self.file_segment_indexes)] = self.numints
        /\ self.grp_segment_indexes[Len(self.grp_segment_indexes)] = self.frames_per_int

\* The seed segments and their parts, as the grids on the object give them.
SegmentParts ==
    {<<i, j>> : i \in 1..(Len(self.int_segment_indexes) - 1),
                j \in 1..(Len(self.grp_segment_indexes) - 1)}

\* The intervals of file_segment_indexes that hold the seed segment i whole.
HoldingIntervals(i) ==
    {k \in 1..(Len(self.file_segment_indexes) - 1) :
        /\ self.file_segment_indexes[k] <= self.int_segment_indexes[i]
        /\ self.int_segment_indexes[i + 1] <= self.file_segment_indexes[k + 1]}

\* C11: after file_splitting the object has the group-based grid
\* file_segment_indexes, and every seed segment of int_segment_indexes lies
\* inside exactly one of its intervals.
C11_GridAlignment ==
    (call.op = "file_splitting" /\ self.exposure_set /\ self.dims_set) =>
        /\ self.file_segments_set
        /\ \A i \in 1..(Len(self.int_segment_indexes) - 1) :
              Cardinality(HoldingIntervals(i)) = 1

\* The interval of file_segment_indexes that holds an integration boundary.
IntervalOf(int_end) ==
    {k \in 1..(Len(self.file_segment_indexes) - 1) :
        /\ self.file_segment_indexes[k] < int_end
        /\ int_end <= self.file_segment_indexes[k + 1]}

C14_FlushedOnce ==
    LoopRan =>
        /\ result.status = "returned"
        /\ result.allocated = Cardinality(SegmentParts)
        /\ result.saved = result.allocated
        /\ result.allocated - Len(result.flushes) <= 1

ParamRun == call.op = "create_seed" /\ result.status # "none" /\ self.paramfile_set

\* C16: a create_seed run for an instrument other than niriss and nircam is
\* ended by the ValueError of get_param_info before anything else is called
\* or built, and for niriss and nircam get_param_info raises nothing.
C16_ConfigErrors ==
    ParamRun =>
        IF call.params.instrument \in {"niriss", "nircam"}
        THEN result.trace # <<"get_param_info">>
        ELSE /\ result.status = "raised" /\ result.exc = "ValueError" /\ result.line = 353
             /\ result.trace = <<"get_param_info">>
             /\ ~self.exposure_set
             /\ result.allocated = 0 /\ result.saved = 0 /\ result.stores = <<>>

\* A create_seed run that got as far as the first call of the disperser.
DisperserRun == call.op = "create_seed" /\ result.status # "none" /\ self.exposure_set

C18_FrameOrder ==
    LoopRan =>
        /\ \A p \in ExposureFrames : Cardinality(LookupsOf(p[1], p[2])) = 1
        /\ \A m, n \in 1..Len(result.lookups) :
              LET a == result.lookups[m]
                  b == result.lookups[n]
              IN /\ m < n => a.row < b.row
                 /\ (a.integration = b.integration /\ b.frame = a.frame + 1) =>
                        b.row = a.row + 1
                 /\ a.integration < b.integration => m < n

\* C19: after the frame loop the counter's advances for resets add up to the
\* number of integrations times the reset-frame count, and the lookups and
\* the stored frames are those of the exposure's frames only.
C19_ResetAdvance ==
    LoopRan =>
        /\ result.resets = self.numints * self.numresets
        /\ Len(result.lookups) = self.numints * self.frames_per_int
        /\ Len(result.stores) = self.numints * self.frames_per_int
        /\ result.recomputes <= Len(result.lookups)

\* The frame-only signals of frames 0..f of integration k, added up.
RECURSIVE SignalsUpTo(_, _)
SignalsUpTo(k, f) ==
    IF f < 0 THEN 0
    ELSE (CHOOSE e \in StoresOf(k, f) : TRUE).signal + SignalsUpTo(k, f - 1)

\* C20: when an integration is split into parts, the value stored for each
\* of its frames is the sum of the frame-only signals of the integration's
\* frames up to and including it, across the parts.
C20_PartsAccumulate ==
    (LoopRan /\ Len(self.grp_segment_indexes) > 2) =>
        /\ \A p \in ExposureFrames : Cardinality(StoresOf(p[1], p[2])) = 1
        /\ \A p \in ExposureFrames :
              \A e \in StoresOf(p[1], p[2]) : e.value = SignalsUpTo(p[1], p[2])

\* The calls of run_disperser in the run's trace, by position.
DisperserCalls == {n \in 1..Len(result.trace) : result.trace[n] = "run_disperser"}

RunTotalFrames ==
    get_frame_count_info(call.params.nint, call.params.ngroup, call.params.nframe,
                         call.params.nskip, call.params.resets_bet_ints).total_frames

C24_ForwardDifferences ==
    (call.op = "file_splitting" /\ self.splits_set) =>
        /\ \A i \in 1..(Len(self.int_segment_indexes) - 1) :
              /\ per_segment(self.int_segment_indexes)[i] =
                    self.int_segment_indexes[i + 1] - self.int_segment_indexes[i]
              /\ per_segment(self.int_segment_indexes)[i] > 0
        /\ \A j \in 1..(Len(self.grp_segment_indexes) - 1) :
              /\ per_segment(self.grp_segment_indexes)[j] =
                    self.grp_segment_indexes[j + 1] - self.grp_segment_indexes[j]
              /\ per_segment(self.grp_segment_indexes)[j] > 0

\* The slots of the first n flushed buffers.
RECURSIVE SlotCount(_)
SlotCount(n) ==
    IF n = 0 THEN 0
    ELSE LET b == result.buffers[n]
         IN (IF Len(b) = 0 THEN 0 ELSE Len(b) * Len(b[1])) + SlotCount(n - 1)

====
